---- MODULE Spec2Model ----
(***************************************************************************)
(* A model of ocpp/messages.py: the codec (unpack / pack), the message     *)
(* classes Call, CallResult and CallError with their factory methods, the  *)
(* schema cache (get_schema) and the payload validator (validate_payload). *)
(*                                                                         *)
(* Python values are tagged records, so that values of different Python    *)
(* types can be compared:                                                  *)
(*   [t |-> "str", s |-> "abc"]      a str                                 *)
(*   [t |-> "int", n |-> 2]          an int                                *)
(*   [t |-> "null"]                  None                                  *)
(*   [t |-> "list", items |-> <<..>>]  a list                              *)
(*   [t |-> "dict", members |-> <<[k |-> "key", v |-> value], ..>>]        *)
(*                                   a dict, in insertion order            *)
(*   [t |-> "dataclass", members |-> <<..>>]  a dataclass instance         *)
(* A JSON text is the sequence of its lexemes: "[", "]", "{", "}", ",",    *)
(* ":", " ", "null", a number such as "2", a string such as "\"abc\"".     *)
(***************************************************************************)
EXTENDS Integers, Sequences, FiniteSets, TLC

VARIABLES
    wire,       \* codec: the text on the wire
    msg,        \* codec: the in-memory message an operation is applied to
    arg,        \* codec: the argument of the last factory call
    res,        \* codec: the outcome of the last operation
    op,         \* codec: the last operation performed
    schemas,    \* the module-level cache _schemas: relative path -> schema
    pc,         \* per caller: position inside get_schema / validate_payload
    call,       \* per caller: the arguments of the call in progress
    data,       \* per caller: the text read from the schema file
    ret,        \* per caller: the outcome of the last finished call
    reads,      \* per relative path: how often the file was opened and read
    stores,     \* per relative path: how often a parsed document was stored
    calls       \* number of calls started so far

vars == <<wire, msg, arg, res, op, schemas, pc, call, data, ret, reads, stores, calls>>
codecVars == <<wire, msg, arg, res, op>>
storeVars == <<schemas, pc, call, data, ret, reads, stores, calls>>

(***************************************************************************)
(* Bounds of the model.                                                    *)
(***************************************************************************)
MaxTextLen == 3     \* arbitrary lexeme sequences up to this length
MaxFields == 4      \* elements after the first one in a generated array
NumCallers == 3     \* concurrent callers of get_schema
MaxCalls == 3       \* calls of get_schema / validate_payload per behaviour

(***************************************************************************)
(* Python values.                                                          *)
(***************************************************************************)
PyStr(s) == [t |-> "str", s |-> s]
PyInt(n) == [t |-> "int", n |-> n]
None == [t |-> "null"]
PyList(items) == [t |-> "list", items |-> items]
PyDict(members) == [t |-> "dict", members |-> members]
Dataclass(members) == [t |-> "dataclass", members |-> members]
Member(k, v) == [k |-> k, v |-> v]
EmptyDict == PyDict(<<>>)

Keys(d) == {d.members[i].k : i \in 1..Len(d.members)}
Lookup(d, k) == d.members[CHOOSE i \in 1..Len(d.members) : d.members[i].k = k].v

\* dict.__setitem__: a key already present keeps its place, a new one is appended
DictSet(members, k, v) ==
    IF \E i \in 1..Len(members) : members[i].k = k
    THEN [i \in 1..Len(members) |->
            IF members[i].k = k THEN Member(k, v) ELSE members[i]]
    ELSE Append(members, Member(k, v))

\* Python's == on values: dicts compare without regard to insertion order
RECURSIVE PyEq(_, _)
PyEq(a, b) ==
    IF a.t # b.t THEN FALSE
    ELSE IF a.t = "dict"
    THEN /\ Keys(a) = Keys(b)
         /\ \A k \in Keys(a) : PyEq(Lookup(a, k), Lookup(b, k))
    ELSE IF a.t = "list"
    THEN /\ Len(a.items) = Len(b.items)
         /\ \A i \in 1..Len(a.items) : PyEq(a.items[i], b.items[i])
    ELSE a = b

(***************************************************************************)
(* The strings and numbers of the model.                                   *)
(***************************************************************************)
StringAtoms ==
    {"", "19223201", "Heartbeat", "BootNotification", "Unknown", "Broken",
     "status", "Accepted", "required", "type", "object", "2",
     "NotImplemented", "InternalError", "TotallyMadeUp",
     "An unexpected error occured.", "An unexpected error occurred.", "desc"}
IntAtoms == {1, 2, 3, 4, 9}

(***************************************************************************)
(* json.dumps: a value to its text, with the default separators ", " and   *)
(* ": ".                                                                   *)
(***************************************************************************)
StrLex(s) == "\"" \o s \o "\""
IntLex(n) == ToString(n)

RECURSIVE dumps(_)
RECURSIVE dumpsItems(_, _)
RECURSIVE dumpsMembers(_, _)
dumps(v) ==
    CASE v.t = "str" -> <<StrLex(v.s)>>
      [] v.t = "int" -> <<IntLex(v.n)>>
      [] v.t = "null" -> <<"null">>
      [] v.t = "list" -> <<"[">> \o dumpsItems(v.items, 1) \o <<"]">>
      [] v.t = "dict" -> <<"{">> \o dumpsMembers(v.members, 1) \o <<"}">>
dumpsItems(items, i) ==
    IF i > Len(items) THEN <<>>
    ELSE dumps(items[i])
         \o (IF i < Len(items) THEN <<",", " ">> ELSE <<>>)
         \o dumpsItems(items, i + 1)
dumpsMembers(members, i) ==
    IF i > Len(members) THEN <<>>
    ELSE <<StrLex(members[i].k), ":", " ">> \o dumps(members[i].v)
         \o (IF i < Len(members) THEN <<",", " ">> ELSE <<>>)
         \o dumpsMembers(members, i + 1)

(***************************************************************************)
(* json.loads: a text to a value, or JSONDecodeError (ok = FALSE).         *)
(***************************************************************************)
IsStrLex(tok) == tok \in {StrLex(s) : s \in StringAtoms}
IsIntLex(tok) == tok \in {IntLex(n) : n \in IntAtoms}
UnStrLex(tok) == CHOOSE s \in StringAtoms : StrLex(s) = tok
UnIntLex(tok) == CHOOSE n \in IntAtoms : IntLex(n) = tok
ParseFail == [ok |-> FALSE]
Parsed(v, nxt) == [ok |-> TRUE, val |-> v, nxt |-> nxt]
At(ts, i) == IF i <= Len(ts) THEN ts[i] ELSE "<eof>"

RECURSIVE ParseValue(_, _)
RECURSIVE ParseItems(_, _, _)
RECURSIVE ParseMembers(_, _, _)
ParseValue(ts, i) ==
    LET tok == At(ts, i) IN
    CASE tok = "null" -> Parsed(None, i + 1)
      [] IsStrLex(tok) -> Parsed(PyStr(UnStrLex(tok)), i + 1)
      [] IsIntLex(tok) -> Parsed(PyInt(UnIntLex(tok)), i + 1)
      [] tok = "[" ->
            IF At(ts, i + 1) = "]" THEN Parsed(PyList(<<>>), i + 2)
            ELSE ParseItems(ts, i + 1, <<>>)
      [] tok = "{" ->
            IF At(ts, i + 1) = "}" THEN Parsed(PyDict(<<>>), i + 2)
            ELSE ParseMembers(ts, i + 1, <<>>)
      [] OTHER -> ParseFail
ParseItems(ts, i, acc) ==
    LET r == ParseValue(ts, i) IN
    IF ~r.ok THEN ParseFail
    ELSE IF At(ts, r.nxt) = "," THEN ParseItems(ts, r.nxt + 1, Append(acc, r.val))
    ELSE IF At(ts, r.nxt) = "]" THEN Parsed(PyList(Append(acc, r.val)), r.nxt + 1)
    ELSE ParseFail
ParseMembers(ts, i, acc) ==
    IF ~(IsStrLex(At(ts, i)) /\ At(ts, i + 1) = ":") THEN ParseFail
    ELSE LET r == ParseValue(ts, i + 2) IN
         IF ~r.ok THEN ParseFail
         ELSE LET acc2 == DictSet(acc, UnStrLex(At(ts, i)), r.val) IN
              IF At(ts, r.nxt) = "," THEN ParseMembers(ts, r.nxt + 1, acc2)
              ELSE IF At(ts, r.nxt) = "}" THEN Parsed(PyDict(acc2), r.nxt + 1)
              ELSE ParseFail

IsSpace(tok) == tok = " "
loads(text) ==
    LET ts == SelectSeq(text, LAMBDA tok : ~IsSpace(tok))
        r == ParseValue(ts, 1)
    IN  IF r.ok /\ r.nxt = Len(ts) + 1 THEN [ok |-> TRUE, val |-> r.val]
        ELSE [ok |-> FALSE]

(***************************************************************************)
(* Outcomes of a Python call: a returned value or a raised exception.      *)
(***************************************************************************)
Return(v) == [raised |-> "none", value |-> v]
Raise(e) == [raised |-> e]

(***************************************************************************)
(* The message classes.                                                    *)
(***************************************************************************)
Classes == <<"Call", "CallResult", "CallError">>
message_type_id(cls) ==
    CASE cls = "Call" -> 2
      [] cls = "CallResult" -> 3
      [] cls = "CallError" -> 4

is_dataclass(v) == v.t = "dataclass"
asdict(v) == PyDict(v.members)

\* Call.__init__(self, unique_id, action, payload)
CallInit(args) ==
    IF Len(args) # 3 THEN Raise("TypeError")
    ELSE Return([cls |-> "Call",
                 unique_id |-> args[1],
                 action |-> args[2],
                 payload |-> IF is_dataclass(args[3]) THEN asdict(args[3])
                             ELSE args[3]])

\* CallResult.__init__(self, unique_id, payload, action=None)
CallResultInit(args) ==
    IF Len(args) < 2 \/ Len(args) > 3 THEN Raise("TypeError")
    ELSE Return([cls |-> "CallResult",
                 unique_id |-> args[1],
                 payload |-> args[2],
                 action |-> IF Len(args) = 3 THEN args[3] ELSE None])

\* CallError.__init__(self, unique_id, error_code, error_description,
\*                    error_details=None)
CallErrorInit(args) ==
    IF Len(args) < 3 \/ Len(args) > 4 THEN Raise("TypeError")
    ELSE Return([cls |-> "CallError",
                 unique_id |-> args[1],
                 error_code |-> args[2],
                 error_description |-> args[3],
                 error_details |-> IF Len(args) = 4 THEN args[4] ELSE None])

\* cls(*args)
Construct(cls, args) ==
    CASE cls = "Call" -> CallInit(args)
      [] cls = "CallResult" -> CallResultInit(args)
      [] cls = "CallError" -> CallErrorInit(args)

\* to_json with a CallError that leaves its error_details out
to_jsonNoDetails(m) ==
    CASE m.cls = "Call" ->
            dumps(PyList(<<PyInt(message_type_id("Call")), m.unique_id,
                           m.action, m.payload>>))
      [] m.cls = "CallResult" ->
            dumps(PyList(<<PyInt(message_type_id("CallResult")), m.unique_id,
                           m.payload>>))
      [] m.cls = "CallError" ->
            dumps(PyList(<<PyInt(message_type_id("CallError")), m.unique_id,
                           m.error_code, m.error_description>>))

\* to_json of the three classes
to_json(m) ==
    CASE m.cls = "Call" ->
            dumps(PyList(<<PyInt(message_type_id("Call")), m.unique_id,
                           m.action, m.payload>>))
      [] m.cls = "CallResult" ->
            dumps(PyList(<<PyInt(message_type_id("CallResult")), m.unique_id,
                           m.payload>>))
      [] m.cls = "CallError" ->
            dumps(PyList(<<PyInt(message_type_id("CallError")), m.unique_id,
                           m.error_code, m.error_description,
                           m.error_details>>))

pack(m) == to_json(m)

\* unpack with a loop that reports an unknown type id as a ProtocolError
RECURSIVE unpackFromWrongKind(_, _)
unpackFromWrongKind(items, c) ==
    IF c > Len(Classes) \/ Len(items) = 0
    THEN Raise("ProtocolError")
    ELSE IF PyEq(items[1], PyInt(message_type_id(Classes[c])))
    THEN Construct(Classes[c], Tail(items))
    ELSE unpackFromWrongKind(items, c + 1)

\* the loop "for cls in [Call, CallResult, CallError]" of unpack, from class c on
RECURSIVE unpackFrom(_, _)
unpackFrom(items, c) ==
    IF c > Len(Classes)
    THEN Raise("PropertyConstraintViolationError")
    ELSE IF Len(items) = 0
    THEN Raise("ProtocolError")
    ELSE IF PyEq(items[1], PyInt(message_type_id(Classes[c])))
    THEN Construct(Classes[c], Tail(items))
    ELSE unpackFrom(items, c + 1)

unpack(text) ==
    LET r == loads(text) IN
    IF ~r.ok THEN Raise("FormatViolationError")
    ELSE IF r.val.t # "list" THEN Raise("ProtocolError")
    ELSE unpackFrom(r.val.items, 1)

(***************************************************************************)
(* ocpp.exceptions: OCPPError and its subclasses, one per error code.      *)
(***************************************************************************)
OCPPErrorSubclasses ==
    << [name |-> "NotImplementedError", code |-> "NotImplemented"],
       [name |-> "NotSupportedError", code |-> "NotSupported"],
       [name |-> "InternalError", code |-> "InternalError"],
       [name |-> "ProtocolError", code |-> "ProtocolError"],
       [name |-> "SecurityError", code |-> "SecurityError"],
       [name |-> "FormatViolationError", code |-> "FormationViolation"],
       [name |-> "PropertyConstraintViolationError",
        code |-> "PropertyConstraintViolation"],
       [name |-> "OccurenceConstraintViolationError",
        code |-> "OccurenceConstraintViolation"],
       [name |-> "TypeConstraintViolationError",
        code |-> "TypeConstraintViolation"],
       [name |-> "GenericError", code |-> "GenericError"] >>

\* error(description=..., details=...)
NewOCPPError(error, description, details) ==
    [cls |-> error.name, ocpp |-> TRUE, code |-> PyStr(error.code),
     description |-> description, details |-> details]
\* an exception that is no OCPPError
OtherException(name) == [cls |-> name, ocpp |-> FALSE]
isinstanceOCPPError(exception) == exception.ocpp

\* Call.create_call_result(self, payload)
create_call_result(self, payload) ==
    LET call_result == CallResultInit(<<self.unique_id, payload>>).value
    IN  [call_result EXCEPT !.action = self.action]

\* Call.create_call_error(self, exception)
create_call_error(self, exception) ==
    LET known == isinstanceOCPPError(exception)
        error_code == IF known THEN exception.code ELSE PyStr("InternalError")
        error_description ==
            IF known THEN exception.description
            ELSE PyStr("An unexpected error occured.")
        error_details == IF known THEN exception.details ELSE EmptyDict
    IN  CallErrorInit(<<self.unique_id, error_code, error_description,
                        error_details>>).value

\* to_exception that turns an unknown code into an InternalError
RECURSIVE to_exceptionCoercing(_, _)
to_exceptionCoercing(self, i) ==
    IF i > Len(OCPPErrorSubclasses)
    THEN Return(NewOCPPError(OCPPErrorSubclasses[3], self.error_description,
                             self.error_details))
    ELSE IF PyEq(PyStr(OCPPErrorSubclasses[i].code), self.error_code)
    THEN Return(NewOCPPError(OCPPErrorSubclasses[i], self.error_description,
                             self.error_details))
    ELSE to_exceptionCoercing(self, i + 1)

\* the loop "for error in OCPPError.__subclasses__()" of to_exception, from i on
RECURSIVE to_exceptionFrom(_, _)
to_exceptionFrom(self, i) ==
    IF i > Len(OCPPErrorSubclasses)
    THEN Raise("UnknownCallErrorCodeError")
    ELSE IF PyEq(PyStr(OCPPErrorSubclasses[i].code), self.error_code)
    THEN Return(NewOCPPError(OCPPErrorSubclasses[i], self.error_description,
                             self.error_details))
    ELSE to_exceptionFrom(self, i + 1)

\* CallError.to_exception(self)
to_exception(self) == to_exceptionFrom(self, 1)

(***************************************************************************)
(* The schema files on disk, below the directory of messages.py.  The      *)
(* files of OCPP 2.0 start with a byte order mark.  Broken.json stands for *)
(* a file that holds no JSON document.                                     *)
(***************************************************************************)
BOM == "<BOM>"
ObjectSchema(required) ==
    PyDict(<<Member("type", PyStr("object")),
             Member("required", PyList(required))>>)
\* the schema documents the files hold
Documents ==
    [path \in {"v16/schemas/Heartbeat.json",
               "v16/schemas/HeartbeatResponse.json",
               "v16/schemas/BootNotification.json",
               "v16/schemas/BootNotificationResponse.json",
               "v20/schemas/HeartbeatRequest_v1p0.json",
               "v20/schemas/BootNotificationResponse_v1p0.json"} |->
        IF path \in {"v16/schemas/Heartbeat.json",
                     "v20/schemas/HeartbeatRequest_v1p0.json"}
        THEN ObjectSchema(<<>>)
        ELSE ObjectSchema(<<PyStr("status")>>)]
IsV20(path) ==
    path \in {"v20/schemas/HeartbeatRequest_v1p0.json",
              "v20/schemas/BootNotificationResponse_v1p0.json"}
\* the text of the files
Files ==
    [path \in DOMAIN Documents \cup {"v16/schemas/Broken.json"} |->
        IF path = "v16/schemas/Broken.json"
        THEN <<"{", StrLex("type"), ":">>
        ELSE (IF IsV20(path) THEN <<BOM>> ELSE <<>>) \o dumps(Documents[path])]

\* ocpp.v16.enums.MessageType
MessageType(name) ==
    CASE name = "Call" -> 2
      [] name = "CallResult" -> 3
      [] name = "CallError" -> 4

\* str(v), as an f-string formats a value
format(v) ==
    CASE v.t = "str" -> v.s
      [] v.t = "int" -> ToString(v.n)
      [] v.t = "null" -> "None"
      [] v.t = "list" -> "[...]"
      [] v.t = "dict" -> "{...}"

\* schema_name += suffix: TypeError unless schema_name is a str
AddSuffix(name, suffix) ==
    IF name.raised # "none" THEN name
    ELSE IF name.value.t # "str" THEN Raise("TypeError")
    ELSE Return(PyStr(name.value.s \o suffix))

\* get_schema, lines 66-71: the suffix of the message's direction
DirectionSuffix(message_type_id_, ocpp_version, name) ==
    IF message_type_id_ = MessageType("CallResult")
    THEN AddSuffix(name, "Response")
    ELSE IF message_type_id_ = MessageType("Call") /\ ocpp_version = "2.0"
    THEN AddSuffix(name, "Request")
    ELSE name

\* get_schema, lines 73-74: the suffix of OCPP 2.0
VersionSuffix(ocpp_version, name) ==
    IF ocpp_version = "2.0" THEN AddSuffix(name, "_v1p0") ELSE name

\* get_schema, line 77: f'{schemas_dir}/schemas/{schema_name}.json'
PathOf(schemas_dir, name) ==
    IF name.raised # "none" THEN name
    ELSE Return(schemas_dir \o "/schemas/" \o format(name.value) \o ".json")

\* get_schema, lines 59-78: the relative path of the schema file
relative_path(message_type_id_, action, ocpp_version) ==
    IF ocpp_version \notin {"1.6", "2.0"} THEN Raise("ValueError")
    ELSE PathOf(IF ocpp_version = "1.6" THEN "v16" ELSE "v20",
                VersionSuffix(ocpp_version,
                    DirectionSuffix(message_type_id_, ocpp_version,
                                    Return(action))))

\* get_schema, lines 87-88: open(path, encoding='utf-8-sig') and f.read()
ReadFile(path) ==
    IF path \notin DOMAIN Files THEN Raise("OSError")
    ELSE LET bytes == Files[path] IN
         Return(IF Len(bytes) > 0 /\ Head(bytes) = BOM THEN Tail(bytes)
                ELSE bytes)

\* get_schema, line 89: json.loads(data)
ParseSchema(text) ==
    LET r == loads(text) IN
    IF r.ok THEN Return(r.val) ELSE Raise("JSONDecodeError")

\* a store that replaces the whole cache by the new entry
CacheStoreFresh(cache, path, document) == (path :> document)

\* _schemas[relative_path] = document
CacheStore(cache, path, document) == (path :> document) @@ cache

\* the result of a call that leaves the cache alone
Untouched(cache, out, read) ==
    [out |-> out, cache |-> cache, read |-> read, stored |-> {}]

\* get_schema, lines 89-91, once the file's text was parsed
GetSchemaParsed(cache, path, document) ==
    IF document.raised # "none" THEN Untouched(cache, document, {path})
    ELSE [out |-> Return(CacheStore(cache, path, document.value)[path]),
          cache |-> CacheStore(cache, path, document.value),
          read |-> {path},
          stored |-> {path}]

\* get_schema, lines 87-91, once the file was opened and read
GetSchemaRead(cache, path, file) ==
    IF file.raised # "none" THEN Untouched(cache, file, {})
    ELSE GetSchemaParsed(cache, path, ParseSchema(file.value))

\* get_schema, lines 80-91, once the path is known
GetSchemaAt(cache, path) ==
    IF path.raised # "none" THEN Untouched(cache, path, {})
    ELSE IF path.value \in DOMAIN cache
    THEN Untouched(cache, Return(cache[path.value]), {})
    ELSE GetSchemaRead(cache, path.value, ReadFile(path.value))

\* get_schema as one uninterrupted call on the cache `cache`: the outcome,
\* the cache afterwards, and the file that was read and stored, if any
get_schema(cache, message_type_id_, action, ocpp_version) ==
    GetSchemaAt(cache, relative_path(message_type_id_, action, ocpp_version))

\* jsonschema.validate(instance, schema) for the keywords "type": "object"
\* and "required": TRUE when the instance is valid
validate(instance, schema) ==
    /\ ("type" \in Keys(schema) /\ Lookup(schema, "type") = PyStr("object"))
            => instance.t = "dict"
    /\ ("required" \in Keys(schema) /\ instance.t = "dict")
            => \A i \in 1..Len(Lookup(schema, "required").items) :
                    Lookup(schema, "required").items[i].s \in Keys(instance)

\* validate_payload, lines 105-117, once get_schema has ended
ValidateAgainst(message, got) ==
    IF got.out.raised \in {"OSError", "JSONDecodeError"}
    THEN [got EXCEPT !.out = Raise("ValidationError")]
    ELSE IF got.out.raised # "none" THEN got
    ELSE IF ~validate(message.payload, got.out.value)
    THEN [got EXCEPT !.out = Raise("ValidationError")]
    ELSE [got EXCEPT !.out = Return(None)]

\* validate_payload(message, ocpp_version) as one uninterrupted call
validate_payload(cache, message, ocpp_version) ==
    IF message.cls \notin {"Call", "CallResult"}
    THEN Untouched(cache, Raise("ValidationError"), {})
    ELSE ValidateAgainst(message,
            get_schema(cache, message_type_id(message.cls), message.action,
                       ocpp_version))

(***************************************************************************)
(* Inputs.                                                                 *)
(***************************************************************************)
NoMessage == [cls |-> "none"]
NoArg == [cls |-> "none", ocpp |-> FALSE]
Pending == [raised |-> "pending"]
EmptyCache == [k \in {} |-> None]

SeqsUpTo(S, n) == UNION {[1..k -> S] : k \in 0..n}

\* every text of at most MaxTextLen lexemes
Alphabet == {"[", "]", "{", "}", ",", ":", " ", "null", IntLex(2), IntLex(9),
             StrLex("2"), "nul"}
ShortTexts == SeqsUpTo(Alphabet, MaxTextLen)

\* the texts of arrays of a first element and at most MaxFields more
Heads == {PyInt(2), PyInt(3), PyInt(4), PyInt(9), PyInt(1), PyStr("2"), None,
          EmptyDict}
FieldAtoms == {PyStr(""), PyStr("19223201"), EmptyDict, None}
FrameTexts ==
    {dumps(PyList(<<h>> \o f)) : h \in Heads, f \in SeqsUpTo(FieldAtoms, MaxFields)}
Texts == ShortTexts \cup FrameTexts

\* in-memory messages, built by the constructors
Ids == {PyStr("19223201"), PyStr("")}
Actions == {PyStr("Heartbeat"), PyStr("BootNotification"), PyStr("Unknown"),
            PyStr("Broken")}
Status == <<Member("status", PyStr("Accepted"))>>
Payloads == {EmptyDict, PyDict(Status),
             PyDict(<<Member("type", PyDict(Status)),
                      Member("status", PyList(<<PyInt(1), None>>))>>)}
Calls ==
    {CallInit(<<u, a, p>>).value :
        u \in Ids, a \in Actions, p \in Payloads \cup {Dataclass(Status)}}
CallResults ==
    {CallResultInit(<<u, p>>).value : u \in Ids, p \in Payloads}
    \cup {CallResultInit(<<u, p, a>>).value :
            u \in Ids, p \in Payloads, a \in Actions}
CallErrors ==
    {CallErrorInit(<<u, c, d>>).value :
        u \in Ids,
        c \in {PyStr("NotImplemented"), PyStr("InternalError"),
               PyStr("TotallyMadeUp")},
        d \in {PyStr("desc")}}
    \cup {CallErrorInit(<<u, c, d, e>>).value :
            u \in Ids,
            c \in {PyStr("NotImplemented"), PyStr("TotallyMadeUp"), None},
            d \in {PyStr("desc"), PyStr("")},
            e \in {EmptyDict, PyDict(Status)}}
Messages == Calls \cup CallResults \cup CallErrors

\* exceptions handed to create_call_error
Exceptions ==
    {NewOCPPError(OCPPErrorSubclasses[i], d, e) :
        i \in 1..Len(OCPPErrorSubclasses),
        d \in {PyStr("desc")}, e \in {EmptyDict, PyDict(Status)}}
    \cup {OtherException("ValueError"), OtherException("ValidationError")}

(***************************************************************************)
(* The codec and the factory methods, one action per call.                 *)
(***************************************************************************)
StoreIdle ==
    /\ schemas = EmptyCache
    /\ pc = <<>>
    /\ call = <<>>
    /\ data = <<>>
    /\ ret = <<>>
    /\ reads = EmptyCache
    /\ stores = EmptyCache
    /\ calls = 0

Init ==
    /\ \/ wire \in Texts /\ msg = NoMessage /\ op = "wire"
       \/ msg \in Messages /\ wire = <<>> /\ op = "message"
    /\ arg = NoArg
    /\ res = Pending
    /\ StoreIdle

Pack ==
    /\ op = "message"
    /\ wire' = pack(msg)
    /\ op' = "pack"
    /\ UNCHANGED <<msg, arg, res>>
    /\ UNCHANGED storeVars

Unpack ==
    /\ op \in {"wire", "pack"}
    /\ res' = unpack(wire)
    /\ op' = "unpack"
    /\ UNCHANGED <<wire, msg, arg>>
    /\ UNCHANGED storeVars

IsReturned(cls) == res.raised = "none" /\ res.value.cls = cls

CreateCallResult ==
    /\ op = "unpack" /\ IsReturned("Call")
    /\ \E payload \in Payloads :
        /\ arg' = payload
        /\ res' = Return(create_call_result(res.value, payload))
    /\ msg' = res.value
    /\ op' = "create_call_result"
    /\ UNCHANGED wire
    /\ UNCHANGED storeVars

CreateCallError ==
    /\ op = "unpack" /\ IsReturned("Call")
    /\ \E exception \in Exceptions :
        /\ arg' = exception
        /\ res' = Return(create_call_error(res.value, exception))
    /\ msg' = res.value
    /\ op' = "create_call_error"
    /\ UNCHANGED wire
    /\ UNCHANGED storeVars

ToException ==
    /\ op \in {"unpack", "create_call_error"} /\ IsReturned("CallError")
    /\ res' = to_exception(res.value)
    /\ msg' = res.value
    /\ op' = "to_exception"
    /\ UNCHANGED <<wire, arg>>
    /\ UNCHANGED storeVars

Next == Pack \/ Unpack \/ CreateCallResult \/ CreateCallError \/ ToException

Spec == Init /\ [][Next]_vars

(***************************************************************************)
(* validate_payload, one action per call, on the shared cache.             *)
(***************************************************************************)
Count(f, k) == IF k \in DOMAIN f THEN f[k] ELSE 0
Bump(f, ks) == [k \in ks |-> Count(f, k) + 1] @@ f

ValidateMessages ==
    LET built == {m \in Messages :
                    /\ m.unique_id = PyStr("19223201")
                    /\ m.cls \in {"Call", "CallResult"}
                           => m.payload \in {EmptyDict, PyDict(Status)}
                    /\ m.cls = "CallError"
                           => /\ m.error_code = PyStr("NotImplemented")
                              /\ m.error_details = EmptyDict}
    IN  built \cup {unpack(pack(m)).value : m \in built}
Versions == {"1.6", "2.0", "1.5"}

CodecIdle ==
    /\ wire = <<>>
    /\ msg = NoMessage
    /\ arg = NoArg
    /\ res = Pending
    /\ op = "idle"

InitValidate ==
    /\ CodecIdle
    /\ StoreIdle

ValidatePayload ==
    /\ calls < MaxCalls
    /\ \E message \in ValidateMessages, ocpp_version \in Versions :
        LET r == validate_payload(schemas, message, ocpp_version) IN
        /\ msg' = message
        /\ arg' = ocpp_version
        /\ res' = r.out
        /\ schemas' = r.cache
        /\ reads' = Bump(reads, r.read)
        /\ stores' = Bump(stores, r.stored)
    /\ op' = "validate_payload"
    /\ calls' = calls + 1
    /\ UNCHANGED <<wire, pc, call, data, ret>>

NextValidate == ValidatePayload

SpecValidate == InitValidate /\ [][NextValidate]_vars

(***************************************************************************)
(* get_schema called by concurrent callers: a caller can be preempted      *)
(* between the statements that read or write the cache or the disk.        *)
(***************************************************************************)
Callers == 1..NumCallers
GetSchemaArgs ==
    {[message_type_id |-> message_type_id("Call"),
      action |-> PyStr("Heartbeat"), ocpp_version |-> "1.6"],
     [message_type_id |-> message_type_id("CallResult"),
      action |-> PyStr("Heartbeat"), ocpp_version |-> "1.6"],
     [message_type_id |-> message_type_id("Call"),
      action |-> PyStr("Heartbeat"), ocpp_version |-> "2.0"],
     [message_type_id |-> message_type_id("Call"),
      action |-> PyStr("Unknown"), ocpp_version |-> "1.6"],
     [message_type_id |-> message_type_id("Call"),
      action |-> PyStr("Broken"), ocpp_version |-> "1.6"],
     [message_type_id |-> message_type_id("CallResult"),
      action |-> None, ocpp_version |-> "1.6"]}

InitCache ==
    /\ CodecIdle
    /\ schemas = EmptyCache
    /\ pc = [p \in Callers |-> "idle"]
    /\ call = [p \in Callers |-> ""]
    /\ data = [p \in Callers |-> <<>>]
    /\ ret = [p \in Callers |-> Pending]
    /\ reads = EmptyCache
    /\ stores = EmptyCache
    /\ calls = 0

\* lines 59-78: the path is computed from the arguments alone
GetSchemaEnter(p) ==
    /\ pc[p] = "idle"
    /\ calls < MaxCalls
    /\ \E a \in GetSchemaArgs :
        LET path == relative_path(a.message_type_id, a.action, a.ocpp_version)
        IN  IF path.raised # "none"
            THEN /\ ret' = [ret EXCEPT ![p] = path]
                 /\ call' = [call EXCEPT ![p] = ""]
                 /\ pc' = pc
            ELSE /\ ret' = [ret EXCEPT ![p] = Pending]
                 /\ call' = [call EXCEPT ![p] = path.value]
                 /\ pc' = [pc EXCEPT ![p] = "check"]
    /\ calls' = calls + 1
    /\ UNCHANGED <<schemas, data, reads, stores>>
    /\ UNCHANGED codecVars

\* lines 80-81: if relative_path in _schemas: return _schemas[relative_path]
GetSchemaCheck(p) ==
    /\ pc[p] = "check"
    /\ IF call[p] \in DOMAIN schemas
       THEN /\ ret' = [ret EXCEPT ![p] = Return(schemas[call[p]])]
            /\ pc' = [pc EXCEPT ![p] = "idle"]
       ELSE /\ pc' = [pc EXCEPT ![p] = "open"]
            /\ ret' = ret
    /\ UNCHANGED <<schemas, call, data, reads, stores, calls>>
    /\ UNCHANGED codecVars

\* opening the file with the cache entry reserved first, filled in later
GetSchemaOpenReserving(p) ==
    /\ pc[p] = "open"
    /\ LET file == ReadFile(call[p]) IN
       IF file.raised # "none"
       THEN /\ ret' = [ret EXCEPT ![p] = file]
            /\ pc' = [pc EXCEPT ![p] = "idle"]
            /\ UNCHANGED <<data, reads, schemas>>
       ELSE /\ data' = [data EXCEPT ![p] = file.value]
            /\ reads' = Bump(reads, {call[p]})
            /\ schemas' = (call[p] :> EmptyDict) @@ schemas
            /\ pc' = [pc EXCEPT ![p] = "store"]
            /\ ret' = ret
    /\ UNCHANGED <<call, stores, calls>>
    /\ UNCHANGED codecVars

\* lines 87-88: open the file and read it
GetSchemaOpen(p) ==
    /\ pc[p] = "open"
    /\ LET file == ReadFile(call[p]) IN
       IF file.raised # "none"
       THEN /\ ret' = [ret EXCEPT ![p] = file]
            /\ pc' = [pc EXCEPT ![p] = "idle"]
            /\ UNCHANGED <<data, reads>>
       ELSE /\ data' = [data EXCEPT ![p] = file.value]
            /\ reads' = Bump(reads, {call[p]})
            /\ pc' = [pc EXCEPT ![p] = "store"]
            /\ ret' = ret
    /\ UNCHANGED <<schemas, call, stores, calls>>
    /\ UNCHANGED codecVars

\* line 89: _schemas[relative_path] = json.loads(data)
GetSchemaStore(p) ==
    /\ pc[p] = "store"
    /\ LET document == ParseSchema(data[p]) IN
       IF document.raised # "none"
       THEN /\ ret' = [ret EXCEPT ![p] = document]
            /\ pc' = [pc EXCEPT ![p] = "idle"]
            /\ UNCHANGED <<schemas, stores>>
       ELSE /\ schemas' = CacheStore(schemas, call[p], document.value)
            /\ stores' = Bump(stores, {call[p]})
            /\ pc' = [pc EXCEPT ![p] = "return"]
            /\ ret' = ret
    /\ data' = [data EXCEPT ![p] = <<>>]
    /\ UNCHANGED <<call, reads, calls>>
    /\ UNCHANGED codecVars

\* line 91: return _schemas[relative_path]
GetSchemaReturn(p) ==
    /\ pc[p] = "return"
    /\ ret' = [ret EXCEPT ![p] = Return(schemas[call[p]])]
    /\ pc' = [pc EXCEPT ![p] = "idle"]
    /\ UNCHANGED <<schemas, call, data, reads, stores, calls>>
    /\ UNCHANGED codecVars

NextCache ==
    \E p \in Callers :
        \/ GetSchemaEnter(p)
        \/ GetSchemaCheck(p)
        \/ GetSchemaOpen(p)
        \/ GetSchemaStore(p)
        \/ GetSchemaReturn(p)

SpecCache == InitCache /\ [][NextCache]_vars

(***************************************************************************)
(* Properties of the codec and of the factory methods.                     *)
(***************************************************************************)
FramingErrors ==
    {"FormatViolationError", "ProtocolError", "PropertyConstraintViolationError"}
IsTypeId(v) == v.t = "int" /\ v.n \in {2, 3, 4}

\* C1: unpack tells the framing faults apart: a text that is no JSON raises
\* FormatViolationError; a JSON value that is no array raises ProtocolError;
\* the empty array raises ProtocolError; an array whose first element is none
\* of 2, 3, 4 raises PropertyConstraintViolationError.  The four texts of
\* the specification's examples are classified as it says.
C1_FramingFaults ==
    op = "unpack" =>
        LET r == loads(wire) IN
        /\ ~r.ok => res.raised = "FormatViolationError"
        /\ (r.ok /\ r.val.t # "list") => res.raised = "ProtocolError"
        /\ (r.ok /\ r.val.t = "list" /\ Len(r.val.items) = 0)
                => res.raised = "ProtocolError"
        /\ (r.ok /\ r.val.t = "list" /\ Len(r.val.items) > 0
                 /\ ~IsTypeId(r.val.items[1]))
                => res.raised = "PropertyConstraintViolationError"
        /\ wire = <<"nul">> => res.raised = "FormatViolationError"
        /\ wire = <<"[", IntLex(2)>> => res.raised = "FormatViolationError"
        /\ wire = <<"{", "}">> => res.raised = "ProtocolError"
        /\ wire = <<"[", "]">> => res.raised = "ProtocolError"
        /\ wire = <<"[", IntLex(9), ",", " ", StrLex("19223201"), "]">>
                => res.raised = "PropertyConstraintViolationError"

\* C1 witness: unpack has rejected an array whose first element is 9 with
\* PropertyConstraintViolationError
C1_Witness ==
    /\ op = "unpack"
    /\ wire = <<"[", IntLex(9), ",", " ", StrLex("19223201"), "]">>
    /\ res.raised = "PropertyConstraintViolationError"

\* C2: unpack returns a message or raises one of the three framing errors,
\* also for an array whose first element is 2, 3 or 4 and whose number of
\* further elements does not fit the class.
C2_OnlyFramingErrors ==
    op = "unpack" => res.raised \in FramingErrors \cup {"none"}

\* C3: unpack(pack(m)) returns a message of m's class with equal fields.
C3_RoundTrip ==
    (op = "unpack" /\ msg # NoMessage) =>
        /\ res.raised = "none"
        /\ res.value.cls = msg.cls
        /\ PyEq(res.value.unique_id, msg.unique_id)
        /\ msg.cls = "Call" =>
                /\ PyEq(res.value.action, msg.action)
                /\ PyEq(res.value.payload, msg.payload)
        /\ msg.cls = "CallResult" => PyEq(res.value.payload, msg.payload)
        /\ msg.cls = "CallError" =>
                /\ PyEq(res.value.error_code, msg.error_code)
                /\ PyEq(res.value.error_description, msg.error_description)
                /\ PyEq(res.value.error_details, msg.error_details)

\* C3 witness: a Call with a nested payload has made the round trip
C3_Witness ==
    /\ op = "unpack"
    /\ msg \in Calls
    /\ "type" \in Keys(msg.payload)
    /\ res.raised = "none"

\* C4: create_call_error returns a CallError with the Call's unique_id; for
\* an OCPPError it carries the exception's code, description and details,
\* and for any other exception "InternalError", "An unexpected error
\* occurred." and empty details.
C4_CreateCallError ==
    op = "create_call_error" =>
        /\ res.raised = "none"
        /\ res.value.cls = "CallError"
        /\ res.value.unique_id = msg.unique_id
        /\ arg.ocpp =>
                /\ res.value.error_code = arg.code
                /\ res.value.error_description = arg.description
                /\ res.value.error_details = arg.details
        /\ ~arg.ocpp =>
                /\ res.value.error_code = PyStr("InternalError")
                /\ res.value.error_description
                        = PyStr("An unexpected error occurred.")
                /\ res.value.error_details = EmptyDict

\* the error codes of the registry, and the class registered for a code
RegisteredCodes ==
    {PyStr(OCPPErrorSubclasses[i].code) : i \in 1..Len(OCPPErrorSubclasses)}
RegisteredName(code) ==
    OCPPErrorSubclasses[
        CHOOSE i \in 1..Len(OCPPErrorSubclasses) :
            PyStr(OCPPErrorSubclasses[i].code) = code].name

\* C5: to_exception returns the exception class registered for exactly the
\* CallError's error_code, with the CallError's error_description and
\* error_details, and raises UnknownCallErrorCodeError for any other code.
C5_ToException ==
    op = "to_exception" =>
        IF msg.error_code \in RegisteredCodes
        THEN /\ res.raised = "none"
             /\ res.value.cls = RegisteredName(msg.error_code)
             /\ res.value.code = msg.error_code
             /\ res.value.description = msg.error_description
             /\ res.value.details = msg.error_details
        ELSE res.raised = "UnknownCallErrorCodeError"

\* C5 witness: a CallError off the wire with a registered code was converted
C5_Witness ==
    /\ op = "to_exception"
    /\ wire # <<>>
    /\ msg.error_code = PyStr("NotImplemented")
    /\ res.raised = "none"
    /\ res.value.cls = "NotImplementedError"

\* C10: a Call returned by unpack has a non-empty unique_id and a non-empty
\* action.
C10_NonEmptyFields ==
    (op = "unpack" /\ IsReturned("Call")) =>
        /\ res.value.unique_id.t = "str" /\ res.value.unique_id.s # ""
        /\ res.value.action.t = "str" /\ res.value.action.s # ""

(***************************************************************************)
(* Properties of validate_payload and of the schema cache.                 *)
(***************************************************************************)
\* C6: validate_payload with version "1.6" or "2.0" returns or raises
\* ValidationError and nothing else, for a Call, for a CallResult (also one
\* off the wire, whose action is None) and for a CallError, which always
\* raises ValidationError.
C6_OnlyValidationError ==
    (op = "validate_payload" /\ arg \in {"1.6", "2.0"}) =>
        /\ res.raised \in {"none", "ValidationError"}
        /\ msg.cls = "CallError" => res.raised = "ValidationError"

\* C7: whatever the interleaving of the callers of get_schema, the schema
\* file of a key is read from the disk at most once.
C7_ReadOnce ==
    \A path \in DOMAIN Documents : Count(reads, path) <= 1

\* C8: at every moment every entry of the cache is the complete document
\* of its file, and every caller that has returned from get_schema has the
\* complete document of the key it asked for.
C8_CompleteEntries ==
    /\ \A path \in DOMAIN schemas :
            path \in DOMAIN Documents /\ schemas[path] = Documents[path]
    /\ \A p \in Callers :
            ret[p].raised = "none" =>
                call[p] \in DOMAIN Documents /\ ret[p].value = Documents[call[p]]

\* C8 witness: two callers have resolved the same key for the first time
\* concurrently and each has stored the document, a third caller has been
\* served the entry from the cache, and all three have returned
C8_Witness ==
    \E path \in DOMAIN stores :
        /\ stores[path] = 2
        /\ reads[path] = 2
        /\ \A p \in {1, 2, 3} : call[p] = path /\ ret[p].raised = "none"

\* C9, as claimed: a call of validate_payload that raises ValidationError
\* leaves the cache as it was.
C9_FailureLeavesCache ==
    [][(calls' = calls + 1 /\ res'.raised = "ValidationError")
            => schemas' = schemas]_vars

\* the cache after a call that has loaded the schema of the message
CacheWithSchemaOf(message, ocpp_version) ==
    (relative_path(message_type_id(message.cls), message.action,
                   ocpp_version).value
        :> Documents[relative_path(message_type_id(message.cls),
                                   message.action, ocpp_version).value])
    @@ schemas

\* C9, amended: a call of validate_payload that raises ValidationError
\* removes and changes no entry of the cache.  It leaves the cache as it
\* was, unless the payload does not fit a schema that this call has loaded:
\* then the cache has gained that schema's entry, the complete document
\* under the message's own key, and nothing else.
C9_FailureKeepsEntries ==
    [][(calls' = calls + 1 /\ res'.raised = "ValidationError")
            => \/ schemas' = schemas
               \/ /\ msg'.cls \in {"Call", "CallResult"}
                  /\ msg'.action.t = "str"
                  /\ arg' \in {"1.6", "2.0"}
                  /\ schemas' = CacheWithSchemaOf(msg', arg')
                  /\ DOMAIN schemas' # DOMAIN schemas
                  /\ ~validate(msg'.payload,
                               Documents[CHOOSE path \in DOMAIN schemas' :
                                            path \notin DOMAIN schemas])]_vars

\* C9 witness: the second call has raised ValidationError for a payload
\* that does not fit, after loading a second schema into the cache
C9_Witness ==
    /\ op = "validate_payload"
    /\ res.raised = "ValidationError"
    /\ calls = 2
    /\ Cardinality(DOMAIN schemas) = 2
    /\ msg.cls = "CallResult"
    /\ msg.payload = EmptyDict
    /\ Count(stores, "v16/schemas/BootNotificationResponse.json") = 1

====
